---------------------------- MODULE Spec2Model ----------------------------
(* Data-quality gates of enterprise-ai-workflows:                          *)
(*   scripts/check_embedding_drift.py   (drift gate, single baseline)      *)
(*   scripts/check_row_count_anomaly.py (row-count gate, windowed z-score) *)
(*                                                                         *)
(* Numbers. Counts are naturals. Python floats are modelled as exact       *)
(* rationals <<n, d>> (d > 0, lowest terms); a square root is kept         *)
(* symbolic as the rational under the root, so every comparison the code   *)
(* makes is decided exactly. IEEE-754 rounding is not modelled.            *)
EXTENDS Integers, Sequences, FiniteSets, TLC

VARIABLES
    driftFile,      \* metrics/baselines/embedding_norm.json: Absent or a stats record
    rcFile,         \* metrics/baselines/row_counts.json: Absent or {"snapshots": [...]}
    failuresFile,   \* the --failures-file location: Absent or {"failures": [...]}
    clock,          \* datetime.utcnow() of the next update run (logical)
    run,            \* arguments, console output and exit code of the last gate run
    procs           \* the gate processes that run step by step, side by side

vars == <<driftFile, rcFile, failuresFile, clock, run, procs>>

\* a file or an optional value: <<>> when missing, <<content>> when present
Absent == <<>>
None == <<>>
Some(x) == <<x>>

\* the content of a file json.load cannot parse (empty, truncated, not JSON)
Unparseable == [parseable |-> FALSE]

\* json.load(f): the parsed content, or the exception it raises
json_load(content) ==
    IF content = Unparseable THEN [raised |-> "JSONDecodeError"] ELSE content

IsException(value) == "raised" \in DOMAIN value

\* the test of the flag dropped: every run saves
update_mode_always(update_baseline) == TRUE

\* if args.update_baseline:
update_mode(update_baseline) == update_baseline

\* the report opened with "a": appended to what the file holds
write_failures_append(file, failures_file, payload) ==
    IF ~failures_file THEN file
    ELSE IF file = Absent THEN <<payload>>
    ELSE << [failures |-> file[1].failures \o payload.failures] >>

\* the report written to a default location when --failures-file is not given
write_failures_unconditional(file, failures_file, payload) == <<payload>>

\* if args.failures_file: with open(args.failures_file, "w") as f: json.dump(payload, f)
write_failures(file, failures_file, payload) ==
    IF failures_file THEN <<payload>> ELSE file

\* no gate process is running
NoRun == [args |-> [gate |-> "none"], outcome |-> "none", exit |-> 0]

\* the gate processes that can run side by side
Procs == {1, 2}

\* a process that has not been started
IdleProc ==
    [state |-> "idle", gate |-> "none", update |-> FALSE, pc |-> 0, saving |-> FALSE,
     current |-> <<>>, baseline |-> <<>>, verdict |-> FALSE, stamp |-> 0,
     trace |-> <<>>, exit |-> 0, raised |-> ""]

NoProcs == [p \in Procs |-> IdleProc]

-----------------------------------------------------------------------------
(* Bounds of the model *)
MaxEmbeddings == 2      \* vectors in the Chroma collection
MaxCount == 2           \* rows in a mart
MaxSnapshots == 3       \* snapshots stored in row_counts.json
MaxWindow == 2          \* --window-size

-----------------------------------------------------------------------------
(* Exact arithmetic standing for Python float arithmetic *)

Abs(x) == IF x < 0 THEN -x ELSE x

RECURSIVE GCD(_, _)
GCD(a, b) == IF b = 0 THEN a ELSE GCD(b, a % b)

Rat(n, d) == LET g == GCD(Abs(n), d) IN <<n \div g, d \div g>>

RatLess(p, q) == p[1] * q[2] < q[1] * p[2]

RatLeq(p, q) == p[1] * q[2] <= q[1] * p[2]

RatSub(p, q) == Rat(p[1] * q[2] - q[1] * p[2], p[2] * q[2])

RatMul(p, q) == Rat(p[1] * q[1], p[2] * q[2])

RatDiv(p, q) == IF q[1] > 0 THEN Rat(p[1] * q[2], p[2] * q[1])
                ELSE Rat(-(p[1] * q[2]), p[2] * (-q[1]))

RatAbs(p) == <<Abs(p[1]), p[2]>>

RECURSIVE SumSeq(_)
SumSeq(s) == IF s = <<>> THEN 0 ELSE Head(s) + SumSeq(Tail(s))

MinSeq(s) == CHOOSE x \in {s[i] : i \in 1..Len(s)} : \A j \in 1..Len(s) : x <= s[j]

MaxSeq(s) == CHOOSE x \in {s[i] : i \in 1..Len(s)} : \A j \in 1..Len(s) : x >= s[j]

\* the sample variance instead: divides by len(xs) - 1
SampleVariance(xs) ==
    LET n == Len(xs)
        s == SumSeq(xs)
    IN  IF n < 2 THEN <<0, 1>>
        ELSE Rat(SumSeq([i \in 1..n |-> (xs[i] * n - s) * (xs[i] * n - s)]),
                 n * n * (n - 1))

\* sum((x - mean) ** 2 for x in xs) / len(xs), with mean = sum(xs) / len(xs)
PopVariance(xs) ==
    LET n == Len(xs)
        s == SumSeq(xs)
    IN  Rat(SumSeq([i \in 1..n |-> (xs[i] * n - s) * (xs[i] * n - s)]), n * n * n)

\* A real number sign * sqrt(q), q a rational >= 0: what v ** 0.5 and a quotient by
\* it evaluate to
Root(sign, q) == [sign |-> IF q[1] = 0 THEN 0 ELSE sign, sqrt_of |-> q]

\* v ** 0.5
Sqrt(v) == Root(1, v)

\* 0.0
Zero == Root(0, <<0, 1>>)

\* r / root, for a rational r and root # 0
RatDivRoot(r, root) ==
    Root(IF r[1] < 0 THEN -1 ELSE 1, RatDiv(RatMul(r, r), root.sqrt_of))

\* abs(x) > t instead
AbsGt(x, t) == t[1] < 0 \/ RatLess(RatMul(t, t), x.sqrt_of)

\* abs(x) >= t, for a real x and a rational t
AbsGeq(x, t) == t[1] <= 0 \/ RatLeq(RatMul(t, t), x.sqrt_of)

-----------------------------------------------------------------------------
(* scripts/check_embedding_drift.py *)

NotFound == [found |-> FALSE, norms |-> <<>>]

\* L2 norms of the stored vectors the model draws from
NormValues == {0, 100, 105, 112}

\* --threshold (percent)
DriftThresholds == {<<0, 1>>, <<5, 1>>, <<10, 1>>}

RECURSIVE SeqsUpTo(_, _)
SeqsUpTo(S, n) ==
    IF n = 0 THEN {<<>>}
    ELSE LET shorter == SeqsUpTo(S, n - 1)
         IN  shorter \cup {Append(s, x) : s \in {t \in shorter : Len(t) = n - 1}, x \in S}

IsSorted(s) == \A i \in 1..(Len(s) - 1) : s[i] <= s[i + 1]

\* the Chroma collection as the run finds it: missing, or the norms of its vectors
\* (listed in ascending order: the statistics do not depend on the order)
Collections ==
    {NotFound} \cup {[found |-> TRUE, norms |-> s] :
                        s \in {t \in SeqsUpTo(NormValues, MaxEmbeddings) : IsSorted(t)}}

\* the test of baseline_path.exists() left out: open() raises on a missing file
load_baseline_unguarded(file) ==
    IF file = Absent THEN Some([raised |-> "FileNotFoundError"])
    ELSE Some(json_load(file[1]))

\* None when the path does not exist, else json.load of the file
load_baseline(file) == IF file = Absent THEN None ELSE Some(json_load(file[1]))

\* mkdir -p, open(path, "w"), json.dump(stats)
save_baseline(stats) == <<stats>>

\* norm_min and norm_max left out of every snapshot
compute_embedding_stats_no_range(norms) ==
    IF Len(norms) = 0
    THEN [count |-> 0, norm_mean |-> <<0, 1>>, norm_std |-> Sqrt(<<0, 1>>)]
    ELSE [count |-> Len(norms),
          norm_mean |-> Rat(SumSeq(norms), Len(norms)),
          norm_std |-> Sqrt(PopVariance(norms))]

compute_embedding_stats(norms) ==
    IF Len(norms) = 0
    THEN [count |-> 0, norm_mean |-> <<0, 1>>, norm_std |-> Sqrt(<<0, 1>>)]
    ELSE [count |-> Len(norms),
          norm_mean |-> Rat(SumSeq(norms), Len(norms)),
          norm_std |-> Sqrt(PopVariance(norms)),
          norm_min |-> MinSeq(norms),
          norm_max |-> MaxSeq(norms)]

\* abs(current - baseline) / baseline * 100, for baseline # 0
mean_drift_pct(current, baseline) ==
    RatMul(RatDiv(RatAbs(RatSub(current.norm_mean, baseline.norm_mean)),
                  baseline.norm_mean),
           <<100, 1>>)

\* the empty-collection test made before the missing-baseline test
early_return_count_first(current, baseline) ==
    IF current.count = 0 THEN "No embeddings in current collection"
    ELSE IF baseline = None THEN "No baseline available (first run)"
    ELSE IF baseline[1].count = 0 THEN "Baseline had no embeddings (initializing)"
    ELSE ""

\* the empty-baseline test made before the empty-collection test
early_return_baseline_first(current, baseline) ==
    IF baseline = None THEN "No baseline available (first run)"
    ELSE IF baseline[1].count = 0 THEN "Baseline had no embeddings (initializing)"
    ELSE IF current.count = 0 THEN "No embeddings in current collection"
    ELSE ""

\* the three early returns of check_drift, in the order the code tests them:
\* the reason returned, "" when none applies
early_return(current, baseline) ==
    IF baseline = None THEN "No baseline available (first run)"
    ELSE IF current.count = 0 THEN "No embeddings in current collection"
    ELSE IF baseline[1].count = 0 THEN "Baseline had no embeddings (initializing)"
    ELSE ""

\* mean_drift_pct >= threshold instead
exceeds_threshold_inclusive(pct, threshold) == RatLeq(threshold, pct)

\* mean_drift_pct > threshold
exceeds_threshold(pct, threshold) == RatLess(threshold, pct)

\* (has_drift, reason), or the exception the division raises
check_drift(current, baseline, threshold) ==
    LET reason == early_return(current, baseline)
    IN  IF reason # ""
        THEN [raised |-> "", reason |-> reason,
              has_drift |-> (reason = "No embeddings in current collection")]
        ELSE IF baseline[1].norm_mean[1] = 0
        THEN [raised |-> "ZeroDivisionError"]
        ELSE LET pct == mean_drift_pct(current, baseline[1])
             IN  IF exceeds_threshold(pct, threshold)
                 THEN [raised |-> "", has_drift |-> TRUE,
                       reason |-> "Norm mean drift exceeds threshold", pct |-> pct]
                 ELSE [raised |-> "", has_drift |-> FALSE,
                       reason |-> "Drift within threshold", pct |-> pct]

\* the failures JSON written at lines 151-160
\* the report with the drift message alone
DriftFailures_reason_only(current, baseline, verdict) ==
    [failures |-> << <<"Embedding drift detected", verdict.reason>> >>]

DriftFailures(current, baseline, verdict) ==
    [failures |-> << <<"Embedding drift detected", verdict.reason>>,
                     <<"Current norm mean", current.norm_mean>>,
                     IF baseline # None
                     THEN <<"Baseline norm mean", baseline[1].norm_mean>>
                     ELSE <<"No baseline">> >>]

\* main(): one run of the drift gate
\* (\E over a singleton binds a value that is computed once)
DriftMain(collection, threshold, update_baseline, failures_file) ==
    \E current \in {compute_embedding_stats(collection.norms)} :
    \E baseline \in {load_baseline(driftFile)} :
    \E args \in {[gate |-> "drift", threshold |-> threshold,
                  update_baseline |-> update_baseline,
                  failures_file |-> failures_file]} :
        IF collection = NotFound
        THEN /\ run' = [args |-> args, outcome |-> "collection not found", exit |-> 1]
             /\ UNCHANGED <<driftFile, rcFile, failuresFile, clock>>
        ELSE IF baseline # None /\ IsException(baseline[1])
        THEN /\ run' = [args |-> args, outcome |-> "baseline unreadable",
                        current |-> current, raised |-> baseline[1].raised, exit |-> 1]
             /\ UNCHANGED <<driftFile, rcFile, failuresFile, clock>>
        ELSE \E verdict \in {check_drift(current, baseline, threshold)} :
             IF verdict.raised # ""
             THEN /\ run' = [args |-> args, outcome |-> "raised", current |-> current,
                             baseline |-> baseline, raised |-> verdict.raised, exit |-> 1]
                  /\ UNCHANGED <<driftFile, rcFile, failuresFile, clock>>
             ELSE IF update_mode(update_baseline)
             THEN /\ driftFile' = save_baseline(current)
                  /\ run' = [args |-> args, outcome |-> "updated", current |-> current,
                             baseline |-> baseline, exit |-> 0]
                  /\ UNCHANGED <<rcFile, failuresFile, clock>>
             ELSE /\ run' = [args |-> args, outcome |-> "checked", current |-> current,
                             baseline |-> baseline, has_drift |-> verdict.has_drift,
                             reason |-> verdict.reason,
                             exit |-> IF verdict.has_drift THEN 1 ELSE 0]
                  /\ failuresFile' =
                         IF verdict.has_drift
                         THEN write_failures(failuresFile, failures_file,
                                             DriftFailures(current, baseline, verdict))
                         ELSE failuresFile
                  /\ UNCHANGED <<driftFile, rcFile, clock>>

\* python check_embedding_drift.py --threshold t
DriftCheckRun ==
    /\ run = NoRun
    /\ UNCHANGED procs
    /\ \E c \in Collections, t \in DriftThresholds :
           DriftMain(c, t, FALSE, FALSE)

\* python check_embedding_drift.py --threshold t --update-baseline
DriftUpdateRun ==
    /\ run = NoRun
    /\ UNCHANGED procs
    /\ \E c \in Collections, t \in DriftThresholds :
           DriftMain(c, t, TRUE, FALSE)

\* sys.exit(main()): the process ends with the exit code, the next run can start
ProcessExit ==
    /\ run # NoRun
    /\ run' = NoRun
    /\ UNCHANGED <<driftFile, rcFile, failuresFile, clock, procs>>

-----------------------------------------------------------------------------
(* scripts/check_row_count_anomaly.py *)

\* --marts: the lists of monitored marts the model draws from
MartLists == {<<"document_index">>, <<"document_index", "hr_policy_features">>}

\* --threshold (z-score)
ZThresholds == {<<0, 1>>, <<3, 2>>, <<3, 1>>}

\* --window-size
WindowSizes == 0..MaxWindow

\* a mart as the warehouse holds it: its rows, or no such table
Tables == [found : {TRUE}, rows : 0..MaxCount] \cup {[found |-> FALSE, rows |-> 0]}

\* the warehouse as a run finds it: one table state per monitored mart
Warehouses(marts) == [1..Len(marts) -> Tables]

\* seq[start:] of Python, start possibly negative
PySliceFrom(seq, start) ==
    LET n == Len(seq)
        from == IF start < 0
                THEN (IF n + start < 0 THEN 0 ELSE n + start)
                ELSE (IF start > n THEN n ELSE start)
    IN  SubSeq(seq, from + 1, n)

RECURSIVE SelectSeq2(_, _)
SelectSeq2(seq, mart) ==
    IF seq = <<>> THEN <<>>
    ELSE IF Head(seq).mart = mart
         THEN <<Head(seq)>> \o SelectSeq2(Tail(seq), mart)
         ELSE SelectSeq2(Tail(seq), mart)

\* json.JSONDecodeError caught and answered with the empty baseline
rc_load_baseline_lenient(file) ==
    IF file = Absent \/ file[1] = Unparseable
    THEN [snapshots |-> <<>>]
    ELSE file[1]

\* {"snapshots": []} when the path does not exist, else json.load of the file
rc_load_baseline(file) ==
    IF file = Absent THEN [snapshots |-> <<>>] ELSE json_load(file[1])

\* the try around the whole loop: the marts after a missing one are not queried
get_mart_counts_outer_try(warehouse, marts) ==
    LET missing == {i \in 1..Len(marts) : ~warehouse[i].found}
        last == IF missing = {} THEN Len(marts)
                ELSE CHOOSE i \in missing : \A j \in missing : i <= j
    IN  [i \in 1..last |->
            [mart |-> marts[i],
             count |-> IF warehouse[i].found THEN warehouse[i].rows ELSE 0,
             warning |-> ~warehouse[i].found]]

\* {mart: count} in the order of --marts; a missing table counts 0 with a warning
get_mart_counts(warehouse, marts) ==
    [i \in 1..Len(marts) |->
        [mart |-> marts[i],
         count |-> IF warehouse[i].found THEN warehouse[i].rows ELSE 0,
         warning |-> ~warehouse[i].found]]

\* a zero spread replaced by 1 instead of returning z = 0
compute_zscore_unit_std(current, snapshots) ==
    IF Len(snapshots) < 2
    THEN <<Zero, <<current, 1>>, Zero>>
    ELSE LET historical_counts == [i \in 1..Len(snapshots) |-> snapshots[i].count]
             mean == Rat(SumSeq(historical_counts), Len(historical_counts))
             std == Sqrt(PopVariance(historical_counts))
         IN  <<RatDivRoot(RatSub(<<current, 1>>, mean),
                          IF std = Zero THEN Sqrt(<<1, 1>>) ELSE std), mean, std>>

\* (zscore, mean, std)
compute_zscore(current, snapshots) ==
    IF Len(snapshots) < 2
    THEN <<Zero, <<current, 1>>, Zero>>
    ELSE LET historical_counts == [i \in 1..Len(snapshots) |-> snapshots[i].count]
             mean == Rat(SumSeq(historical_counts), Len(historical_counts))
             std == Sqrt(PopVariance(historical_counts))
         IN  IF std = Zero
             THEN <<Zero, mean, Zero>>
             ELSE <<RatDivRoot(RatSub(<<current, 1>>, mean), std), mean, std>>

\* the filter on the mart name left out
mart_snapshots_unfiltered(baseline, mart, window_size) ==
    PySliceFrom(baseline.snapshots, -window_size)

\* the window ends before the newest snapshot of the mart
mart_snapshots_before_newest(baseline, mart, window_size) ==
    LET own == SelectSeq2(baseline.snapshots, mart)
    IN  PySliceFrom(SubSeq(own, 1, Len(own) - 1), -window_size)

\* [s for s in snapshots if s.get("mart") == mart][-window_size:]
mart_snapshots(baseline, mart, window_size) ==
    PySliceFrom(SelectSeq2(baseline.snapshots, mart), -window_size)

\* len(mart_snapshots) < 1 instead
insufficient_history_empty(snaps) == Len(snaps) < 1

\* len(mart_snapshots) < 2
insufficient_history(snaps) == Len(snaps) < 2

\* "spike" if zscore >= 0 instead
direction_inclusive(zscore) == IF zscore.sign >= 0 THEN "spike" ELSE "drop"

\* "spike" if zscore > 0 else "drop"
direction(zscore) == IF zscore.sign > 0 THEN "spike" ELSE "drop"

\* one iteration of the loop of check_anomalies: what it prints for the mart and
\* the failure message it appends, if any
check_mart(entry, baseline, threshold, window_size) ==
    LET snaps == mart_snapshots(baseline, entry.mart, window_size)
    IN  IF insufficient_history(snaps)
        THEN [mart |-> entry.mart, evaluated |-> FALSE, used |-> snaps,
              failure |-> <<>>]
        ELSE LET z == compute_zscore(entry.count, snaps)
             IN  [mart |-> entry.mart, evaluated |-> TRUE, used |-> snaps,
                  current |-> entry.count, zscore |-> z[1], mean |-> z[2], std |-> z[3],
                  failure |->
                      IF AbsGeq(z[1], threshold)
                      THEN << [mart |-> entry.mart,
                               direction |-> direction(z[1]),
                               Z |-> z[1], current |-> entry.count, mean |-> z[2]] >>
                      ELSE <<>>]

RECURSIVE Flatten(_)
Flatten(ss) == IF ss = <<>> THEN <<>> ELSE Head(ss) \o Flatten(Tail(ss))

\* the log of a loop that leaves at the first failure
RECURSIVE UpToFirstFailure(_)
UpToFirstFailure(log) ==
    IF log = <<>> THEN <<>>
    ELSE IF Head(log).failure # <<>> THEN <<Head(log)>>
         ELSE <<Head(log)>> \o UpToFirstFailure(Tail(log))

\* a break after failures.append(...)
check_anomalies_stop_at_first(current_counts, baseline, threshold, window_size) ==
    LET log == UpToFirstFailure(
                   [i \in 1..Len(current_counts) |->
                       check_mart(current_counts[i], baseline, threshold, window_size)])
        failures == Flatten([i \in 1..Len(log) |-> log[i].failure])
    IN  [has_anomaly |-> Len(failures) > 0, failures |-> failures, log |-> log]

\* len(failures) > 1 instead of > 0
check_anomalies_needs_two(current_counts, baseline, threshold, window_size) ==
    LET log == [i \in 1..Len(current_counts) |->
                    check_mart(current_counts[i], baseline, threshold, window_size)]
        failures == Flatten([i \in 1..Len(log) |-> log[i].failure])
    IN  [has_anomaly |-> Len(failures) > 1, failures |-> failures, log |-> log]

\* (has_anomaly, failures) and the per-mart console output
check_anomalies(current_counts, baseline, threshold, window_size) ==
    LET log == [i \in 1..Len(current_counts) |->
                    check_mart(current_counts[i], baseline, threshold, window_size)]
        failures == Flatten([i \in 1..Len(log) |-> log[i].failure])
    IN  [has_anomaly |-> Len(failures) > 0, failures |-> failures, log |-> log]

\* baseline["snapshots"] = [...]: the history replaced by the new snapshots
append_snapshots_replace(baseline, current_counts, timestamp) ==
    [snapshots |-> [i \in 1..Len(current_counts) |->
                       [timestamp |-> timestamp,
                        mart |-> current_counts[i].mart,
                        count |-> current_counts[i].count]]]

\* for mart, count in current_counts.items():
\*     baseline.setdefault("snapshots", []).append({timestamp, mart, count})
append_snapshots(baseline, current_counts, timestamp) ==
    [snapshots |-> baseline.snapshots \o
        [i \in 1..Len(current_counts) |->
            [timestamp |-> timestamp,
             mart |-> current_counts[i].mart,
             count |-> current_counts[i].count]]]

\* mkdir -p, open(path, "w"), json.dump(data)
rc_save_baseline(data) == <<data>>

\* the number of snapshots row_counts.json holds
StoredSnapshots ==
    IF rcFile = Absent \/ rcFile[1] = Unparseable THEN 0
    ELSE Len(rcFile[1].snapshots)

\* the model lets an update run start while the file stays within MaxSnapshots
RoomFor(marts) == StoredSnapshots + Len(marts) <= MaxSnapshots

\* historical_counts = [s["count"] for s in snapshots] raises KeyError on a
\* snapshot that has no "count"
count_missing(snaps) == \E k \in 1..Len(snaps) : "count" \notin DOMAIN snaps[k]

\* check_anomalies has no try/except: the KeyError of compute_zscore for one mart
\* leaves the loop and main()
detection_raises(current_counts, baseline, window_size) ==
    \E i \in 1..Len(current_counts) :
        LET snaps == mart_snapshots(baseline, current_counts[i].mart, window_size)
        IN  ~insufficient_history(snaps) /\ count_missing(snaps)

\* main(): one run of the row-count gate
RowCountMain(marts, warehouse, threshold, window_size, update_baseline, failures_file) ==
    \E current_counts \in {get_mart_counts(warehouse, marts)} :
    \E baseline \in {rc_load_baseline(rcFile)} :
    \E args \in {[gate |-> "row_count", marts |-> marts, threshold |-> threshold,
                  window_size |-> window_size, update_baseline |-> update_baseline,
                  failures_file |-> failures_file]} :
        IF IsException(baseline)
        THEN /\ run' = [args |-> args, outcome |-> "baseline unreadable",
                        warehouse |-> warehouse, current_counts |-> current_counts,
                        raised |-> baseline.raised, exit |-> 1]
             /\ UNCHANGED <<driftFile, rcFile, failuresFile, clock>>
        ELSE IF update_mode(update_baseline)
        THEN /\ rcFile' = rc_save_baseline(
                               append_snapshots(baseline, current_counts, clock))
             /\ clock' = clock + 1
             /\ run' = [args |-> args, outcome |-> "updated", warehouse |-> warehouse,
                        current_counts |-> current_counts, exit |-> 0]
             /\ UNCHANGED <<driftFile, failuresFile>>
        ELSE IF detection_raises(current_counts, baseline, window_size)
        THEN /\ run' = [args |-> args, outcome |-> "raised", warehouse |-> warehouse,
                        current_counts |-> current_counts,
                        raised |-> "KeyError", exit |-> 1]
             /\ UNCHANGED <<driftFile, rcFile, failuresFile, clock>>
        ELSE \E result \in {check_anomalies(current_counts, baseline, threshold,
                                             window_size)} :
             /\ run' = [args |-> args, outcome |-> "checked", warehouse |-> warehouse,
                        current_counts |-> current_counts, log |-> result.log,
                        has_anomaly |-> result.has_anomaly,
                        failures |-> result.failures,
                        exit |-> IF result.has_anomaly THEN 1 ELSE 0]
             /\ failuresFile' =
                    IF result.has_anomaly
                    THEN write_failures(failuresFile, failures_file,
                                        [failures |-> result.failures])
                    ELSE failuresFile
             /\ UNCHANGED <<driftFile, rcFile, clock>>

\* python check_row_count_anomaly.py --marts ... --threshold t --window-size w
RowCountCheckRun ==
    /\ run = NoRun
    /\ UNCHANGED procs
    /\ \E marts \in MartLists, t \in ZThresholds, w \in WindowSizes :
           \E warehouse \in Warehouses(marts) :
               RowCountMain(marts, warehouse, t, w, FALSE, FALSE)

\* python check_row_count_anomaly.py --marts ... --update-baseline
RowCountUpdateRun ==
    /\ run = NoRun
    /\ UNCHANGED procs
    /\ \E marts \in MartLists, t \in ZThresholds, w \in WindowSizes :
           /\ RoomFor(marts)
           /\ \E warehouse \in Warehouses(marts) :
                  RowCountMain(marts, warehouse, t, w, TRUE, FALSE)

-----------------------------------------------------------------------------
Init ==
    /\ driftFile = Absent
    /\ rcFile = Absent
    /\ failuresFile = Absent
    /\ clock = 0
    /\ run = NoRun
    /\ procs = NoProcs

NextDrift == DriftCheckRun \/ DriftUpdateRun \/ ProcessExit

SpecDrift == Init /\ [][NextDrift]_vars

NextRowCount == RowCountCheckRun \/ RowCountUpdateRun \/ ProcessExit

SpecRowCount == Init /\ [][NextRowCount]_vars

-----------------------------------------------------------------------------
(* The stated scenario of the z-score policy: seven stored snapshots of one mart *)

ScenarioHistory == <<100, 102, 98, 101, 99, 103, 100>>

ScenarioCounts == 95..135

ScenarioWindows == {1, 6, 7, 8}

InitScenario ==
    /\ driftFile = Absent
    /\ rcFile = << [snapshots |-> [i \in 1..Len(ScenarioHistory) |->
                                     [timestamp |-> i - 1, mart |-> "document_index",
                                      count |-> ScenarioHistory[i]]]] >>
    /\ failuresFile = Absent
    /\ clock = Len(ScenarioHistory)
    /\ run = NoRun
    /\ procs = NoProcs

ScenarioCheckRun ==
    /\ run = NoRun
    /\ UNCHANGED procs
    /\ \E c \in ScenarioCounts, t \in ZThresholds, w \in ScenarioWindows :
           RowCountMain(<<"document_index">>, <<[found |-> TRUE, rows |-> c]>>,
                        t, w, FALSE, FALSE)

NextScenario == ScenarioCheckRun \/ ProcessExit

SpecScenario == InitScenario /\ [][NextScenario]_vars

-----------------------------------------------------------------------------
(* Both gates on one machine: --failures-file given or not, a baseline file *)
(* that cannot be parsed, and commands that are entered again               *)

\* the Chroma collection as a run of this machine finds it
GateCollections ==
    {NotFound} \cup {[found |-> TRUE, norms |-> s] : s \in {<<>>, <<0>>, <<100>>, <<112>>}}

\* --threshold of the drift gate, default 10.0
DefaultDriftThreshold == <<10, 1>>

\* --marts
GateMarts == <<"document_index", "hr_policy_features">>

\* a mart as a run of this machine finds it
GateTables == {[found |-> FALSE, rows |-> 0]} \cup {[found |-> TRUE, rows |-> c] : c \in {0, 2}}

\* --threshold of the row-count gate, default 3.0
DefaultZThreshold == <<3, 1>>

\* --window-size, default 7
DefaultWindow == 7

\* row_counts.json after two --update-baseline runs over GateMarts that found
\* a[1], b[1] rows and then a[2], b[2] rows
TwoUpdates(a, b) ==
    [snapshots |-> [i \in 1..4 |->
        [timestamp |-> (i - 1) \div 2,
         mart |-> GateMarts[2 - (i % 2)],
         count |-> IF i % 2 = 1 THEN a[(i + 1) \div 2] ELSE b[i \div 2]]]]

\* The baselines found on disk: none yet, the history of two earlier update runs,
\* or a file that an interrupted save_baseline (open(path, "w") truncates before
\* json.dump writes) or an editor left unparseable.
InitGates ==
    /\ driftFile \in {Absent, <<Unparseable>>}
    /\ rcFile \in {Absent, <<Unparseable>>}
                    \cup {<<TwoUpdates(a, b)>> : a \in {<<0, 1>>, <<1, 1>>},
                                                 b \in {<<0, 1>>, <<2, 1>>}}
    /\ failuresFile = Absent
    /\ clock = 2
    /\ run = NoRun
    /\ procs = NoProcs

\* python check_embedding_drift.py [--update-baseline] [--failures-file f]
GateDriftRun ==
    /\ run = NoRun
    /\ UNCHANGED procs
    /\ \E c \in GateCollections, u \in BOOLEAN, ff \in BOOLEAN :
           DriftMain(c, DefaultDriftThreshold, u, ff)

\* python check_row_count_anomaly.py [--update-baseline] [--failures-file f]
GateRowCountRun ==
    /\ run = NoRun
    /\ UNCHANGED procs
    /\ \E warehouse \in [1..Len(GateMarts) -> GateTables], u \in BOOLEAN, ff \in BOOLEAN :
           /\ u => RoomFor(GateMarts)
           /\ RowCountMain(GateMarts, warehouse, DefaultZThreshold, DefaultWindow, u, ff)

\* the drift gate has exited and is started again on the unchanged collection with
\* the same threshold and failures file, with or without --update-baseline
DriftRunAgain ==
    /\ run.args.gate = "drift"
    /\ UNCHANGED procs
    /\ \E c \in GateCollections :
        /\ IF run.outcome = "collection not found"
           THEN c = NotFound
           ELSE c # NotFound /\ compute_embedding_stats(c.norms) = run.current
        /\ \E u \in BOOLEAN :
               DriftMain(c, run.args.threshold, u, run.args.failures_file)

\* the row-count gate has exited and is started again on the unchanged warehouse
\* with the same marts, threshold, window and failures file
RowCountRunAgain ==
    /\ run.args.gate = "row_count"
    /\ UNCHANGED procs
    /\ \E warehouse \in [1..Len(run.args.marts) -> GateTables] :
        /\ get_mart_counts(warehouse, run.args.marts) = run.current_counts
        /\ \E u \in BOOLEAN :
               /\ u => RoomFor(run.args.marts)
               /\ RowCountMain(run.args.marts, warehouse, run.args.threshold,
                               run.args.window_size, u, run.args.failures_file)

NextGates ==
    \/ GateDriftRun
    \/ GateRowCountRun
    \/ DriftRunAgain
    \/ RowCountRunAgain
    \/ ProcessExit

SpecGates == InitGates /\ [][NextGates]_vars

-----------------------------------------------------------------------------
(* The row-count gate on a baseline file in which one stored snapshot has no *)
(* "count": valid JSON, written by hand or by another tool                   *)

WithoutCount(baseline, k) ==
    [snapshots |-> [i \in 1..Len(baseline.snapshots) |->
        IF i = k
        THEN [timestamp |-> baseline.snapshots[i].timestamp,
              mart |-> baseline.snapshots[i].mart]
        ELSE baseline.snapshots[i]]]

InitEdited ==
    /\ driftFile = Absent
    /\ rcFile \in {<<WithoutCount(TwoUpdates(a, b), k)>> :
                       a \in {<<0, 1>>, <<1, 1>>}, b \in {<<0, 1>>, <<2, 1>>}, k \in 1..4}
    /\ failuresFile = Absent
    /\ clock = 2
    /\ run = NoRun
    /\ procs = NoProcs

\* python check_row_count_anomaly.py [--failures-file f]
EditedCheckRun ==
    /\ run = NoRun
    /\ UNCHANGED procs
    /\ \E warehouse \in [1..Len(GateMarts) -> GateTables], ff \in BOOLEAN :
           RowCountMain(GateMarts, warehouse, DefaultZThreshold, DefaultWindow, FALSE, ff)

NextEdited == EditedCheckRun \/ ProcessExit

SpecEdited == InitEdited /\ [][NextEdited]_vars

-----------------------------------------------------------------------------
(* Two gate processes side by side, each main() taken statement by statement. *)
(* Neither script takes a lock, and save_baseline writes in place:            *)
(* open(path, "w") empties the file, json.dump and the close fill it.         *)

\* the missing `return 0` after save_baseline: the update run goes on to report
Program_no_return(gate, update) ==
    IF gate = "drift"
    THEN <<"collect", "read", "detect">>
             \o (IF update THEN <<"write", "report">> ELSE <<"report">>)
    ELSE <<"collect", "read">>
             \o (IF update THEN <<"write", "detect", "report">>
                 ELSE <<"detect", "report">>)

\* the statements of main() in the order it runs them when nothing raises:
\* drift gate: compute_embedding_stats, load_baseline, check_drift, then
\* save_baseline or the verdict; row-count gate: get_mart_counts, load_baseline,
\* then save_baseline, or check_anomalies and the verdict
Program(gate, update) ==
    IF gate = "drift"
    THEN <<"collect", "read", "detect">>
             \o (IF update_mode(update) THEN <<"write">> ELSE <<"report">>)
    ELSE <<"collect", "read">>
             \o (IF update_mode(update) THEN <<"write">> ELSE <<"detect", "report">>)

\* the statement the process is at
Phase(pr) ==
    IF pr.state = "running" THEN Program(pr.gate, pr.update)[pr.pc] ELSE "none"

\* on to the next statement, or to the end of main()
Advance(pr) ==
    [pr EXCEPT !.pc = pr.pc + 1,
               !.state = IF pr.pc + 1 > Len(Program(pr.gate, pr.update))
                         THEN "done" ELSE "running"]

\* an uncaught exception: traceback, exit code 1
Abort(pr, exception) ==
    [pr EXCEPT !.state = "done", !.exit = 1, !.raised = exception]

\* the sources the two processes read
SideCollections ==
    {NotFound} \cup {[found |-> TRUE, norms |-> s] : s \in {<<100>>, <<112>>}}
SideMarts == <<"document_index">>
SideWarehouses == {<<[found |-> TRUE, rows |-> c]>> : c \in {1, 2}}

\* compute_embedding_stats / get_mart_counts: the first statement of a new run;
\* a collection that is not there ends the drift run with sys.exit(1)
PCollect(p) ==
    /\ procs[p].state = "idle"
    /\ \E gate \in {"drift", "row_count"}, update \in BOOLEAN :
        LET pr == [IdleProc EXCEPT !.state = "running", !.gate = gate,
                                   !.update = update, !.pc = 1,
                                   !.trace = <<"collect">>]
        IN  /\ Phase(pr) = "collect"
            /\ IF gate = "drift"
               THEN \E c \in SideCollections :
                        procs' = [procs EXCEPT ![p] =
                            IF c = NotFound THEN Abort(pr, "SystemExit")
                            ELSE Advance([pr EXCEPT !.current =
                                             compute_embedding_stats(c.norms)])]
               ELSE \E w \in SideWarehouses :
                        procs' = [procs EXCEPT ![p] =
                            Advance([pr EXCEPT !.current = get_mart_counts(w, SideMarts)])]
    /\ UNCHANGED <<driftFile, rcFile, failuresFile, clock, run>>

\* baseline = load_baseline(args.baseline_file)
PRead(p) ==
    /\ Phase(procs[p]) = "read"
    /\ LET pr == [procs[p] EXCEPT !.trace = Append(procs[p].trace, "read")]
           loaded == IF pr.gate = "drift" THEN load_baseline(driftFile)
                     ELSE rc_load_baseline(rcFile)
           raises == IF pr.gate = "drift"
                     THEN loaded # None /\ IsException(loaded[1])
                     ELSE IsException(loaded)
       IN  procs' = [procs EXCEPT ![p] =
                        IF raises THEN Abort(pr, "JSONDecodeError")
                        ELSE Advance([pr EXCEPT !.baseline = loaded])]
    /\ UNCHANGED <<driftFile, rcFile, failuresFile, clock, run>>

\* check_drift(...) / check_anomalies(...)
PDetect(p) ==
    /\ Phase(procs[p]) = "detect"
    /\ LET pr == [procs[p] EXCEPT !.trace = Append(procs[p].trace, "detect")]
       IN  IF pr.gate = "drift"
           THEN \E v \in {check_drift(pr.current, pr.baseline, DefaultDriftThreshold)} :
                    procs' = [procs EXCEPT ![p] =
                                 IF v.raised # "" THEN Abort(pr, v.raised)
                                 ELSE Advance([pr EXCEPT !.verdict = v.has_drift])]
           ELSE \E r \in {check_anomalies(pr.current, pr.baseline, DefaultZThreshold,
                                          DefaultWindow)} :
                    procs' = [procs EXCEPT ![p] =
                                 Advance([pr EXCEPT !.verdict = r.has_anomaly])]
    /\ UNCHANGED <<driftFile, rcFile, failuresFile, clock, run>>

\* save_baseline, first half: open(baseline_path, "w") leaves the file empty
PWriteOpen(p) ==
    /\ Phase(procs[p]) = "write"
    /\ ~procs[p].saving
    /\ procs' = [procs EXCEPT ![p].saving = TRUE, ![p].stamp = clock,
                              ![p].trace = Append(procs[p].trace, "write")]
    /\ clock' = clock + 1
    /\ IF procs[p].gate = "drift"
       THEN driftFile' = <<Unparseable>> /\ UNCHANGED rcFile
       ELSE rcFile' = <<Unparseable>> /\ UNCHANGED driftFile
    /\ UNCHANGED <<failuresFile, run>>

\* what the process writes: the snapshot, or the loaded list with its snapshots
\* appended
Written(pr) ==
    IF pr.gate = "drift" THEN save_baseline(pr.current)
    ELSE rc_save_baseline(append_snapshots(pr.baseline, pr.current, pr.stamp))

\* what the file holds once the process has written from offset 0 and closed:
\* its own content when the file was still empty, else its content or, when the
\* content another process wrote meanwhile is longer, a mix of the two
AfterDump(file, pr) ==
    IF file = <<Unparseable>> THEN {Written(pr)} ELSE {Written(pr), <<Unparseable>>}

\* save_baseline, second half: json.dump(...) and the close of the file
PWriteClose(p) ==
    /\ Phase(procs[p]) = "write"
    /\ procs[p].saving
    /\ procs' = [procs EXCEPT ![p] = Advance([procs[p] EXCEPT !.saving = FALSE,
                                                              !.exit = 0])]
    /\ IF procs[p].gate = "drift"
       THEN driftFile' \in AfterDump(driftFile, procs[p]) /\ UNCHANGED rcFile
       ELSE rcFile' \in AfterDump(rcFile, procs[p]) /\ UNCHANGED driftFile
    /\ UNCHANGED <<failuresFile, clock, run>>

\* the verdict printed, return 1 or return 0
PReport(p) ==
    /\ Phase(procs[p]) = "report"
    /\ procs' = [procs EXCEPT ![p] =
                    Advance([procs[p] EXCEPT !.exit = IF procs[p].verdict THEN 1 ELSE 0,
                                             !.trace = Append(procs[p].trace, "report")])]
    /\ UNCHANGED <<driftFile, rcFile, failuresFile, clock, run>>

\* the baselines on disk when the processes start: none, or a complete one
InitSide ==
    /\ driftFile \in {Absent, save_baseline(compute_embedding_stats(<<100>>))}
    /\ rcFile \in {Absent,
                   rc_save_baseline(append_snapshots([snapshots |-> <<>>],
                       get_mart_counts(<<[found |-> TRUE, rows |-> 1]>>, SideMarts), 0))}
    /\ failuresFile = Absent
    /\ clock = 1
    /\ run = NoRun
    /\ procs = NoProcs

NextSide ==
    \E p \in Procs :
        \/ PCollect(p)
        \/ PRead(p)
        \/ PDetect(p)
        \/ PWriteOpen(p)
        \/ PWriteClose(p)
        \/ PReport(p)

SpecSide == InitSide /\ [][NextSide]_vars

-----------------------------------------------------------------------------
(* The row-count gate with its defaults on a history of up to MaxRuns update  *)
(* runs: an update run, then the check on the unchanged warehouse             *)

MaxRuns == 7            \* update runs behind the stored history

\* the row counts of the earlier runs
HistoryCounts == {0, 1}

\* row_counts.json after Len(h) update runs over GateMarts, run i having found
\* h[i] rows in the first mart and 1 - h[i] rows in the second
HistoryOf(h) ==
    [snapshots |-> [i \in 1..(2 * Len(h)) |->
        [timestamp |-> (i - 1) \div 2,
         mart |-> GateMarts[2 - (i % 2)],
         count |-> IF i % 2 = 1 THEN h[(i + 1) \div 2] ELSE 1 - h[i \div 2]]]]

InitHistory ==
    /\ driftFile = Absent
    /\ rcFile \in {Absent}
                    \cup {rc_save_baseline(HistoryOf(h)) :
                             h \in UNION {[1..k -> HistoryCounts] : k \in 1..MaxRuns}}
    /\ failuresFile = Absent
    /\ clock = StoredSnapshots \div 2
    /\ run = NoRun
    /\ procs = NoProcs

\* check_row_count_anomaly.py --update-baseline, or the plain check, with the
\* default threshold and window
HistoryRun ==
    /\ run = NoRun
    /\ UNCHANGED procs
    /\ \E warehouse \in Warehouses(GateMarts), u \in BOOLEAN, ff \in BOOLEAN :
           RowCountMain(GateMarts, warehouse, DefaultZThreshold, DefaultWindow, u, ff)

\* the check right after the update run, on the warehouse as that run found it
HistoryCheckAfterUpdate ==
    /\ run.args.gate = "row_count"
    /\ run.outcome = "updated"
    /\ UNCHANGED procs
    /\ RowCountMain(run.args.marts, run.warehouse, run.args.threshold,
                    run.args.window_size, FALSE, run.args.failures_file)

NextHistory == HistoryRun \/ HistoryCheckAfterUpdate

SpecHistory == InitHistory /\ [][NextHistory]_vars

-----------------------------------------------------------------------------
(* The report file as text, and the notifier slack_notify.py that reads it.   *)
(* A Python str is a sequence of characters; a JSON document is the tree      *)
(* json.dump writes, its strings escaped; a file that is not JSON is its      *)
(* lines.                                                                     *)

MaxChars == 2           \* characters in a failure string drawn freely
MaxFailures == 17       \* failure strings in a report

\* max_lines = 15
MaxLines == 15

\* the characters JSON escapes, and one it does not
Chars == {"n", "\"", "\\", "\n"}
Strs == UNION {[1..k -> Chars] : k \in 0..MaxChars}

Digits == <<"0", "1", "2", "3", "4", "5", "6", "7", "8", "9">>

\* f"{n}" for n >= 0
RECURSIVE decimal(_)
decimal(n) ==
    IF n < 10 THEN <<Digits[n + 1]>>
    ELSE decimal(n \div 10) \o <<Digits[(n % 10) + 1]>>

\* json.dump of a str: the characters between the quotes
RECURSIVE Escape(_)
Escape(s) ==
    IF s = <<>> THEN <<>>
    ELSE (IF Head(s) = "\"" THEN <<"\\", "\"">>
          ELSE IF Head(s) = "\\" THEN <<"\\", "\\">>
          ELSE IF Head(s) = "\n" THEN <<"\\", "n">>
          ELSE <<Head(s)>>) \o Escape(Tail(s))

\* json.loads of a JSON string
RECURSIVE Unescape(_)
Unescape(t) ==
    IF t = <<>> THEN <<>>
    ELSE IF Head(t) = "\\" /\ Len(t) >= 2
    THEN <<IF t[2] = "n" THEN "\n" ELSE t[2]>> \o Unescape(Tail(Tail(t)))
    ELSE <<Head(t)>> \o Unescape(Tail(t))

\* Python values
PyStr(s) == [py |-> "str", s |-> s]
PyInt(n) == [py |-> "int", n |-> n]
PyNone == [py |-> "None"]
PyList(items) == [py |-> "list", items |-> items]
PyDict(members) == [py |-> "dict", members |-> members]

\* json.dump of a str, an int or None
dump_scalar(v) ==
    IF v.py = "str" THEN [t |-> "string", text |-> Escape(v.s)]
    ELSE IF v.py = "int" THEN [t |-> "number", n |-> v.n]
    ELSE [t |-> "null"]

\* json.dump of a scalar or a list of scalars
dump_value(v) ==
    IF v.py = "list"
    THEN [t |-> "array", items |-> [i \in 1..Len(v.items) |-> dump_scalar(v.items[i])]]
    ELSE dump_scalar(v)

\* json.dump(value, f, indent=2): the document written
json_dump(v) ==
    [kind |-> "json",
     value |-> IF v.py = "dict"
               THEN [t |-> "object",
                     members |-> [i \in 1..Len(v.members) |->
                                     [key |-> Escape(v.members[i].key),
                                      value |-> dump_value(v.members[i].value)]]]
               ELSE dump_value(v)]

load_scalar(j) ==
    IF j.t = "string" THEN PyStr(Unescape(j.text))
    ELSE IF j.t = "number" THEN PyInt(j.n)
    ELSE PyNone

load_value(j) ==
    IF j.t = "array"
    THEN PyList([i \in 1..Len(j.items) |-> load_scalar(j.items[i])])
    ELSE load_scalar(j)

\* json.loads(content) of a JSON document
json_loads(j) ==
    IF j.t = "object"
    THEN PyDict([i \in 1..Len(j.members) |->
                    [key |-> Unescape(j.members[i].key),
                     value |-> load_value(j.members[i].value)]])
    ELSE load_value(j)

\* str(item)
str(item) ==
    IF item.py = "str" THEN item.s
    ELSE IF item.py = "int" THEN decimal(item.n)
    ELSE <<"None">>

\* "failures" in data
HasKey(data, key) == \E i \in 1..Len(data.members) : data.members[i].key = key

\* data["failures"]
Lookup(data, key) ==
    data.members[CHOOSE i \in 1..Len(data.members) : data.members[i].key = key].value

\* the members of a dict whose value is a str or a number, in order
RECURSIVE stringy(_)
stringy(members) ==
    IF members = <<>> THEN <<>>
    ELSE (IF Head(members).value.py \in {"str", "int"}
          THEN <<Head(members).key \o <<": ">> \o str(Head(members).value)>>
          ELSE <<>>) \o stringy(Tail(members))

\* the notifier does not look for the "failures" key
load_failures_no_failures_key(file) ==
    IF file = Absent THEN << <<"(failures file not found)">> >>
    ELSE IF file[1].kind = "text"
    THEN IF \A i \in 1..Len(file[1].lines) : file[1].lines[i] = <<>>
         THEN << <<"(failures file empty)">> >>
         ELSE SelectSeq(file[1].lines, LAMBDA line : line # <<>>)
    ELSE LET data == json_loads(file[1].value)
         IN  IF data.py = "dict" THEN stringy(data.members)
             ELSE IF data.py = "list"
             THEN [i \in 1..Len(data.items) |-> str(data.items[i])]
             ELSE << <<"(unrecognized failures file format)">> >>

\* load_failures(path): the strings the notifier appends to its message
\* (the lines of a text file carry no outer blanks here, a blank line is <<>>)
load_failures(file) ==
    IF file = Absent THEN << <<"(failures file not found)">> >>
    ELSE IF file[1].kind = "text"
    THEN IF \A i \in 1..Len(file[1].lines) : file[1].lines[i] = <<>>
         THEN << <<"(failures file empty)">> >>
         ELSE SelectSeq(file[1].lines, LAMBDA line : line # <<>>)
    ELSE LET data == json_loads(file[1].value)
         IN  IF data.py = "dict"
             THEN IF HasKey(data, <<"failures">>)
                     /\ Lookup(data, <<"failures">>).py = "list"
                  THEN LET items == Lookup(data, <<"failures">>).items
                       IN  [i \in 1..Len(items) |-> str(items[i])]
                  ELSE stringy(data.members)
             ELSE IF data.py = "list"
             THEN [i \in 1..Len(data.items) |-> str(data.items[i])]
             ELSE << <<"(unrecognized failures file format)">> >>

\* the marker counts the whole list
truncate_count_all(failures) ==
    IF Len(failures) > MaxLines
    THEN Append(SubSeq(failures, 1, MaxLines),
                <<"(+">> \o decimal(Len(failures)) \o <<" more omitted)">>)
    ELSE failures

\* truncated = failures[:max_lines], with "(+N more omitted)" appended when the
\* list is longer
truncate(failures) ==
    IF Len(failures) > MaxLines
    THEN Append(SubSeq(failures, 1, MaxLines),
                <<"(+">> \o decimal(Len(failures) - MaxLines) \o <<" more omitted)">>)
    ELSE failures

\* the text of the message: the emoji and the message, then one bullet line per
\* entry of truncated; nothing is added for an empty list or without
\* --failures-file
message_text(failures_file, failures) ==
    [head |-> <<"emoji", "message">>,
     bullets |-> IF failures_file /\ failures # <<>> THEN truncate(failures) ELSE <<>>]

\* failure i of a long report: the mart name carries a character JSON escapes
Special == <<"n", "\"", "\\", "\n">>
Failure(i) == <<"m">> \o decimal(i) \o <<Special[(i % 4) + 1], "n">>

\* the lists of failure strings a gate hands to json.dump: one string of any
\* characters, or up to MaxFailures strings, one per anomalous mart
ReportLists ==
    {<<s>> : s \in Strs} \cup {[i \in 1..n |-> Failure(i)] : n \in 1..MaxFailures}

\* a failures file that no gate wrote: no text, blank lines, plain text, a JSON
\* list, JSON objects without a list under "failures", a JSON number, and
\* lists around the display limit
OtherFiles ==
    {<<[kind |-> "text", lines |-> l]>> :
        l \in {<<>>, << <<>>, <<>> >>, << <<"a">>, <<>>, <<"b", "c">> >>}}
    \cup {<<json_dump(v)>> :
        v \in {PyList(<<>>),
               PyList(<<PyStr(<<"a">>), PyInt(12), PyNone>>),
               PyDict(<<[key |-> <<"failures">>, value |-> PyList(<<>>)]>>),
               PyDict(<<[key |-> <<"failures">>, value |-> PyStr(<<"a">>)],
                        [key |-> <<"k">>, value |-> PyInt(3)],
                        [key |-> <<"l">>, value |-> PyNone]>>),
               PyInt(7)}}
    \cup {<<json_dump(PyList([i \in 1..n |-> PyInt(i)]))>> :
        n \in (MaxLines - 1)..MaxFailures}

InitNotify ==
    /\ failuresFile \in {Absent} \cup OtherFiles
    /\ driftFile = Absent
    /\ rcFile = Absent
    /\ clock = 0
    /\ run = NoRun
    /\ procs = NoProcs

\* the end of a failing check run with --failures-file: json.dump of
\* {"failures": failures} into the file, return 1
GateReport ==
    \E failures \in ReportLists, gate \in {"drift", "row_count"} :
        /\ gate = "drift" => Len(failures) = 3
        /\ failuresFile' =
               write_failures(failuresFile, TRUE,
                   json_dump(PyDict(<<[key |-> <<"failures">>,
                                       value |-> PyList([i \in 1..Len(failures) |->
                                                            PyStr(failures[i])])]>>)))
        /\ run' = [args |-> [gate |-> gate, update_baseline |-> FALSE,
                             failures_file |-> TRUE],
                   outcome |-> "checked", failures |-> failures, exit |-> 1]
        /\ UNCHANGED <<driftFile, rcFile, clock, procs>>

\* main() of slack_notify.py: nothing without SLACK_WEBHOOK_URL; else the message
\* is built and posted, exit code 2 when the post fails
Notify ==
    \E webhook \in BOOLEAN, failures_file \in BOOLEAN, delivered \in BOOLEAN :
        /\ run' =
            IF ~webhook
            THEN [args |-> [gate |-> "notify", failures_file |-> failures_file],
                  outcome |-> "skipped", exit |-> 0]
            ELSE LET failures == IF failures_file THEN load_failures(failuresFile)
                                 ELSE <<>>
                 IN  [args |-> [gate |-> "notify", failures_file |-> failures_file],
                      outcome |-> IF delivered THEN "sent" ELSE "network failure",
                      failures |-> failures,
                      text |-> message_text(failures_file, failures),
                      exit |-> IF delivered THEN 0 ELSE 2]
        /\ UNCHANGED <<driftFile, rcFile, failuresFile, clock, procs>>

NextNotify == GateReport \/ Notify

SpecNotify == InitNotify /\ [][NextNotify]_vars

-----------------------------------------------------------------------------
(* Properties of the drift gate, checked under SpecDrift *)

\* a drift-gate run that reached check_drift
DriftEvaluated ==
    /\ run.args.gate = "drift"
    /\ run.outcome \in {"checked", "raised", "updated"}

DriftCheckMode == DriftEvaluated /\ ~run.args.update_baseline

\* C1: with no baseline file, a check-mode run of the drift gate reports no drift
\* and exits 0, whatever the current snapshot (count 0 included) and the threshold.
C1_ColdStartNeverFails ==
    (DriftCheckMode /\ run.baseline = None)
        => (run.outcome = "checked" /\ ~run.has_drift /\ run.exit = 0)

C1_Witness ==
    /\ DriftCheckMode /\ run.baseline = None
    /\ run.outcome = "checked"
    /\ run.current.count = 0
    /\ run.exit = 0

\* C3: with a baseline present and a current snapshot of count 0, the drift gate
\* reports drift, whatever the threshold and the baseline (its count 0 included).
C3_EmptyCurrentAlwaysDrift ==
    (DriftCheckMode /\ run.baseline # None /\ run.current.count = 0)
        => (run.outcome = "checked" /\ run.has_drift)

C3_Witness ==
    /\ DriftCheckMode /\ run.baseline # None
    /\ run.current.count = 0
    /\ run.baseline[1].count = 0
    /\ run.outcome = "checked" /\ run.has_drift

\* |current mean - baseline mean| / baseline mean * 100 > threshold, in integers:
\* current mean a/b, baseline mean c/d with c > 0, threshold n/m
DriftExceeds(cur, base, t) ==
    Abs(cur[1] * base[2] - base[1] * cur[2]) * 100 * t[2] > t[1] * base[1] * cur[2]

C5_ZeroMeanBaselineNeverAnomalous ==
    (/\ DriftCheckMode /\ run.baseline # None
     /\ run.current.count > 0
     /\ run.baseline[1].norm_mean[1] = 0)
        => (run.outcome = "checked" /\ ~run.has_drift)

-----------------------------------------------------------------------------
(* Properties of the row-count gate, checked under SpecRowCount *)

RowCountChecked == run.args.gate = "row_count" /\ run.outcome = "checked"

\* the marts named by the failure messages of the run
FailedMarts == {run.failures[i].mart : i \in 1..Len(run.failures)}

Counts(snaps) == [i \in 1..Len(snaps) |-> snaps[i].count]

SumSq(xs) == SumSeq([i \in 1..Len(xs) |-> xs[i] * xs[i]])

\* N^2 times the population variance of xs: N * sum(x^2) - (sum x)^2
Spread(xs) == Len(xs) * SumSq(xs) - SumSeq(xs) * SumSeq(xs)

\* N times (current - mean of xs)
Deviation(current, xs) == current * Len(xs) - SumSeq(xs)

\* |current - mean| / std >= n/m over the population statistics of xs, in integers
ZAtLeast(current, xs, t) ==
    \/ t[1] <= 0
    \/ Deviation(current, xs) * Deviation(current, xs) * t[2] * t[2]
           >= t[1] * t[1] * Spread(xs)

\* C2: a mart with fewer than 2 snapshots in the window the detector selected is
\* never reported anomalous, whatever its current count and the threshold.
C2_InsufficientHistoryNeverAnomalous ==
    RowCountChecked =>
        \A i \in 1..Len(run.log) :
            Len(run.log[i].used) < 2
                => (~run.log[i].evaluated /\ run.log[i].mart \notin FailedMarts)

C2_Witness ==
    /\ RowCountChecked
    /\ run.args.threshold = <<0, 1>>
    /\ \E i \in 1..Len(run.log) :
           /\ Len(run.log[i].used) = 1
           /\ run.current_counts[i].count # run.log[i].used[1].count
           /\ run.log[i].mart \notin FailedMarts
    /\ run.exit = 0

C8_ConstantHistoryNeverAnomalous ==
    RowCountChecked =>
        \A i \in 1..Len(run.log) :
            LET xs == Counts(run.log[i].used)
            IN  (Len(xs) >= 2 /\ (\A j \in 1..Len(xs) : xs[j] = xs[1])
                 /\ run.args.threshold[1] > 0)
                    => /\ run.log[i].evaluated
                       /\ run.log[i].zscore = Zero
                       /\ run.log[i].mart \notin FailedMarts

\* constant history 2, 2 and a current count of 0 from a missing mart
C8_Witness ==
    /\ RowCountChecked
    /\ run.args.threshold[1] > 0
    /\ \E i \in 1..Len(run.log) :
           /\ Counts(run.log[i].used) = <<2, 2>>
           /\ run.current_counts[i].warning
           /\ run.current_counts[i].count = 0
           /\ run.log[i].evaluated
           /\ run.log[i].zscore = Zero
           /\ run.log[i].mart \notin FailedMarts

\* the sign of z for the mart of log entry i: 0 when the history is constant
ZSign(i) ==
    LET xs == Counts(run.log[i].used)
        dev == Deviation(run.current_counts[i].count, xs)
    IN  IF Spread(xs) = 0 \/ dev = 0 THEN 0 ELSE IF dev > 0 THEN 1 ELSE -1

\* the log entry of the mart a failure message names
LogIndex(mart) == CHOOSE i \in 1..Len(run.log) : run.log[i].mart = mart

\* C9 (as claimed): every failure message says "spike" exactly when z > 0 and
\* "drop" exactly when z < 0, for every threshold.
C9_DirectionMatchesSignStrictly ==
    RowCountChecked =>
        \A k \in 1..Len(run.failures) :
            LET z == ZSign(LogIndex(run.failures[k].mart))
            IN  /\ run.failures[k].direction = "spike" <=> z > 0
                /\ run.failures[k].direction = "drop" <=> z < 0

\* C9 (amended): every failure message says "spike" exactly when z > 0 and "drop"
\* exactly when z <= 0; a message with z = 0 (labelled "drop") is emitted only
\* when the threshold is not positive.
C9_DirectionMatchesSign ==
    RowCountChecked =>
        \A k \in 1..Len(run.failures) :
            LET z == ZSign(LogIndex(run.failures[k].mart))
            IN  /\ run.failures[k].direction = "spike" <=> z > 0
                /\ run.failures[k].direction = "drop" <=> z <= 0
                /\ z = 0 => run.args.threshold[1] <= 0

\* a failure message for a mart exactly at its constant baseline: z = 0, "drop"
C9_Witness ==
    /\ RowCountChecked
    /\ \E k \in 1..Len(run.failures) :
           /\ ZSign(LogIndex(run.failures[k].mart)) = 0
           /\ run.failures[k].direction = "drop"

\* the snapshots stored for a mart, oldest first
Stored(mart) == SelectSeq(rc_load_baseline(rcFile).snapshots, LAMBDA s : s.mart = mart)

\* the most recent w of seq
LastN(seq, w) ==
    IF w >= Len(seq) THEN seq ELSE SubSeq(seq, Len(seq) - w + 1, Len(seq))

\* C10 (as claimed): for every window size W the statistics of a mart are taken
\* over the most recent W stored snapshots of that mart and never over more.
C10_WindowIsMostRecentW ==
    RowCountChecked =>
        \A i \in 1..Len(run.log) :
            /\ Len(run.log[i].used) <= run.args.window_size
            /\ run.log[i].used = LastN(Stored(run.log[i].mart), run.args.window_size)

-----------------------------------------------------------------------------
(* Properties of the stated scenario, checked under SpecScenario *)

ScenarioRun ==
    /\ RowCountChecked
    /\ Counts(run.log[1].used) = ScenarioHistory
    /\ run.current_counts[1].count = 130
    /\ run.args.threshold = <<3, 1>>

\* |q - n/m| <= 1/(2m): the rational q is n/m to the digits of m (m = 10, 100)
RatAbout(q, n, m) ==
    /\ RatLeq(<<2 * n - 1, 2 * m>>, q)
    /\ RatLeq(q, <<2 * n + 1, 2 * m>>)

\* the same for the non-negative real sqrt(q)
RootAbout(q, n, m) ==
    /\ RatLeq(<<(2 * n - 1) * (2 * n - 1), 4 * m * m>>, q)
    /\ RatLeq(q, <<(2 * n + 1) * (2 * n + 1), 4 * m * m>>)

\* C7 (as claimed): the scenario yields mean about 100.43, population standard
\* deviation about 1.72, z about 17.2 and an anomaly with direction "spike".
C7_ScenarioAsStated ==
    ScenarioRun =>
        /\ RatAbout(run.log[1].mean, 10043, 100)
        /\ RootAbout(run.log[1].std.sqrt_of, 172, 100)
        /\ run.log[1].zscore.sign = 1
        /\ RootAbout(run.log[1].zscore.sqrt_of, 172, 10)
        /\ run.has_anomaly
        /\ run.failures[1].direction = "spike"

\* C7 (amended): the scenario yields mean about 100.43, population standard
\* deviation about 1.59, z about 18.6 and an anomaly with direction "spike".
C7_ScenarioPopulationStd ==
    ScenarioRun =>
        /\ RatAbout(run.log[1].mean, 10043, 100)
        /\ RootAbout(run.log[1].std.sqrt_of, 159, 100)
        /\ run.log[1].zscore.sign = 1
        /\ RootAbout(run.log[1].zscore.sqrt_of, 186, 10)
        /\ run.has_anomaly /\ run.exit = 1
        /\ Len(run.failures) = 1
        /\ run.failures[1].direction = "spike"

C7_Witness == ScenarioRun /\ run.has_anomaly

-----------------------------------------------------------------------------
(* Properties of both gates, checked under SpecGates *)

\* the snapshots of a mart the detector is to use: the most recent window_size
\* of those stored for it (all of them when window_size is 0)
OwnHistory(mart) ==
    IF run.args.window_size = 0 THEN Stored(mart)
    ELSE LastN(Stored(mart), run.args.window_size)

\* the verdict of mart i decided from its own current count and its own stored
\* snapshots alone
OwnVerdict(i) ==
    LET xs == Counts(OwnHistory(run.args.marts[i]))
    IN  /\ Len(xs) >= 2
        /\ IF Spread(xs) = 0
           THEN run.args.threshold[1] <= 0
           ELSE ZAtLeast(run.current_counts[i].count, xs, run.args.threshold)

\* C11: every configured mart is evaluated, in the order of --marts, also after
\* an earlier mart was found anomalous; the verdict of a mart is decided by its
\* own count and its own stored snapshots alone; the run fails exactly when some
\* mart is anomalous.
C11_PerMartIndependence ==
    RowCountChecked =>
        /\ Len(run.log) = Len(run.args.marts)
        /\ \A i \in 1..Len(run.args.marts) :
               /\ run.log[i].mart = run.args.marts[i]
               /\ (run.log[i].failure # <<>>) <=> OwnVerdict(i)
               /\ (run.args.marts[i] \in FailedMarts) <=> OwnVerdict(i)
        /\ run.has_anomaly <=> (\E i \in 1..Len(run.args.marts) : OwnVerdict(i))

\* the first mart is anomalous and the second is still evaluated, and passes
C11_Witness ==
    /\ RowCountChecked
    /\ Len(run.args.marts) = 2
    /\ run.log[1].failure # <<>>
    /\ Len(run.log) = 2
    /\ run.log[2].evaluated
    /\ run.log[2].failure = <<>>
    /\ run.exit = 1

\* a run of either gate that was given --update-baseline
UpdateModeRun == run.args.gate \in {"drift", "row_count"} /\ run.args.update_baseline

\* the snapshot the run computed is what the baseline file now holds (drift
\* gate) or ends with (row-count gate)
SnapshotPersisted ==
    IF run.args.gate = "drift"
    THEN driftFile = <<run.current>>
    ELSE LET stored == rcFile[1].snapshots
             n == Len(run.current_counts)
         IN  /\ Len(stored) >= n
             /\ \A i \in 1..n :
                    /\ stored[Len(stored) - n + i].mart = run.current_counts[i].mart
                    /\ stored[Len(stored) - n + i].count = run.current_counts[i].count

\* C12 (as claimed): for every current snapshot and every parseable existing
\* baseline, a run with --update-baseline persists the snapshot and exits 0,
\* without evaluating the detector.
C12_UpdateModeAlwaysPersists ==
    (UpdateModeRun /\ run.outcome \notin {"collection not found", "baseline unreadable"})
        => /\ run.outcome = "updated"
           /\ run.exit = 0
           /\ SnapshotPersisted

\* C13: a step changes a baseline file only if it is a run with
\* --update-baseline; a check-mode run, whether it passes, fails or ends in an
\* error, leaves both baseline files as they were.
C13_OnlyUpdateModeWritesBaseline ==
    [][(driftFile' # driftFile \/ rcFile' # rcFile)
           => (run'.args.gate # "none" /\ run'.args.update_baseline)]_vars

\* a failing check of the drift gate: the baseline on disk is the one it loaded
C13_Witness ==
    /\ run.args.gate = "drift" /\ ~run.args.update_baseline
    /\ run.outcome = "checked" /\ run.exit = 1
    /\ driftFile # Absent
    /\ driftFile = run.baseline

\* a run of either gate that reached the end of main()
Completed == run.outcome \in {"checked", "updated"}

\* the metric keys the completed check found anomalous: the marts with a failure
\* message, or the embedding norm
AnomalousKeysOf(r) ==
    IF r.args.gate = "drift"
    THEN IF r.has_drift THEN {"embedding_norm"} ELSE {}
    ELSE {r.log[i].mart : i \in {j \in 1..Len(r.log) : r.log[j].failure # <<>>}}

AnomalousKeys == AnomalousKeysOf(run)

\* C14: a check-mode run that completes exits 1 exactly when at least one metric
\* key is anomalous and 0 otherwise; an update-mode run that completes exits 0.
C14_ExitCodeContract ==
    /\ run.outcome = "checked"
           => /\ run.exit \in {0, 1}
              /\ run.exit = 1 <=> AnomalousKeys # {}
    /\ run.outcome = "updated" => run.exit = 0

\* a row-count check with exactly one anomalous mart of two exits 1
C14_Witness ==
    /\ RowCountChecked
    /\ Cardinality(AnomalousKeys) = 1
    /\ Len(run.log) = 2
    /\ run.exit = 1

\* the run r is a check that found an anomaly and was given --failures-file
ReportDue(r) ==
    /\ r.outcome = "checked"
    /\ ~r.args.update_baseline
    /\ AnomalousKeysOf(r) # {}
    /\ r.args.failures_file

\* the file holds the report of the run r
ReportOf(file, r) ==
    /\ file # Absent
    /\ IF r.args.gate = "drift"
       THEN file[1].failures[1] = <<"Embedding drift detected", r.reason>>
       ELSE file[1].failures = r.failures

\* C15: a step writes the failure report exactly when it is a check-mode run that
\* found an anomaly and was given --failures-file; every other step (a passing
\* check, an update, a run without --failures-file, a run that ends in an error)
\* leaves the failures location as it was, an earlier report included.
C15_ReportWrittenIffFailingCheck ==
    [][IF ReportDue(run')
       THEN ReportOf(failuresFile', run')
       ELSE failuresFile' = failuresFile]_vars

\* a passing check given --failures-file, with the report of an earlier failing
\* run still in place
C15_Witness ==
    /\ run.outcome = "checked"
    /\ run.args.failures_file
    /\ run.exit = 0
    /\ failuresFile # Absent

\* the position of a mart in --marts
MartIndex(mart) == CHOOSE i \in 1..Len(run.args.marts) : run.args.marts[i] = mart

\* C16 (as claimed): a failure report just written holds as many failure strings
\* as there are anomalous metric keys.
C16_OneStringPerAnomalousKey ==
    ReportDue(run) => Len(failuresFile[1].failures) = Cardinality(AnomalousKeys)

\* C16 (amended): the report of the row-count gate holds exactly one failure
\* string per anomalous mart, in the order of evaluation; the report of the drift
\* gate holds three strings for its single metric key: the drift message, the
\* current norm mean and the baseline norm mean.
C16_ReportContent ==
    ReportDue(run) =>
        LET failures == failuresFile[1].failures
        IN  IF run.args.gate = "drift"
            THEN failures = << <<"Embedding drift detected", run.reason>>,
                               <<"Current norm mean", run.current.norm_mean>>,
                               <<"Baseline norm mean", run.baseline[1].norm_mean>> >>
            ELSE /\ Len(failures) = Cardinality(AnomalousKeys)
                 /\ {failures[k].mart : k \in 1..Len(failures)} = AnomalousKeys
                 /\ \A k, l \in 1..Len(failures) :
                        k < l => MartIndex(failures[k].mart) < MartIndex(failures[l].mart)

\* a report of the row-count gate with both marts anomalous, in the order of --marts
C16_Witness ==
    /\ ReportDue(run)
    /\ run.args.gate = "row_count"
    /\ Len(failuresFile[1].failures) = 2
    /\ failuresFile[1].failures[1].mart = "document_index"
    /\ failuresFile[1].failures[2].mart = "hr_policy_features"

\* an update run of a gate has exited and the step is the check-mode run of the
\* same gate on the unchanged source
DriftUpdateThenCheck ==
    /\ run.args.gate = "drift" /\ run.outcome = "updated"
    /\ run'.args.gate = "drift" /\ ~run'.args.update_baseline
    /\ run'.current = run.current

RowCountUpdateThenCheck ==
    /\ run.args.gate = "row_count" /\ run.outcome = "updated"
    /\ run'.args.gate = "row_count" /\ ~run'.args.update_baseline
    /\ run'.args.marts = run.args.marts
    /\ run'.current_counts = run.current_counts

\* the check reports "insufficient history" for every mart with fewer than 2
\* stored snapshots
InsufficientHistoryReported ==
    /\ run'.outcome = "checked"
    /\ \A i \in 1..Len(run'.log) :
           Len(Stored(run'.log[i].mart)) < 2
               => /\ ~run'.log[i].evaluated
                  /\ run'.log[i].failure = <<>>

SameCheckAgain ==
    /\ run.args.gate \in {"drift", "row_count"}
    /\ ~run.args.update_baseline
    /\ run'.args = run.args
    /\ IF run.args.gate = "row_count"
       THEN run'.current_counts = run.current_counts
       ELSE IF run.outcome = "collection not found"
       THEN run'.outcome = "collection not found"
       ELSE run'.outcome # "collection not found" /\ run'.current = run.current

\* C18: the second of two consecutive check-mode runs with the same flags and
\* the same source data, no update in between, gives the verdicts, the console
\* output and the exit code of the first and leaves the failure report with the
\* content the first run left.
C18_CheckModeIdempotent ==
    [][SameCheckAgain
           => /\ run' = run
              /\ failuresFile' = failuresFile
              /\ driftFile' = driftFile /\ rcFile' = rcFile]_vars

\* a failing row-count check that wrote its report: entered again, it finds the
\* same baseline and writes the same report
C18_Witness ==
    /\ ReportDue(run)
    /\ run.args.gate = "row_count"
    /\ ReportOf(failuresFile, run)
    /\ rcFile # Absent
    /\ run.exit = 1

\* the step is a run of the drift gate that found a collection and no baseline file
DriftRunWithoutBaseline ==
    /\ driftFile = Absent
    /\ run'.args.gate = "drift"
    /\ run'.outcome # "collection not found"

\* the step is a run of the row-count gate that found no baseline file
RowCountRunWithoutBaseline ==
    /\ rcFile = Absent
    /\ run'.args.gate = "row_count"

\* C19: a run that finds no baseline file does not fail in loading it: the drift
\* gate goes on with None and the row-count gate with an empty snapshot list,
\* and only a run with --update-baseline brings the file into being.
C19_MissingBaselineLoads ==
    [][/\ DriftRunWithoutBaseline
           => /\ run'.outcome \in {"checked", "updated"}
              /\ run'.baseline = None
              /\ driftFile' = IF run'.args.update_baseline
                              THEN Some(run'.current) ELSE Absent
       /\ RowCountRunWithoutBaseline
           => /\ run'.outcome \in {"checked", "updated"}
              /\ IF run'.args.update_baseline
                 THEN /\ rcFile' # Absent
                      /\ Len(rcFile'[1].snapshots) = Len(run'.args.marts)
                 ELSE /\ rcFile' = Absent
                      /\ \A i \in 1..Len(run'.log) : run'.log[i].used = <<>>]_vars

\* a check of a non-empty collection with no baseline file: it passes and there
\* is still no file
C19_Witness ==
    /\ run.args.gate = "drift" /\ run.outcome = "checked"
    /\ run.baseline = None
    /\ run.current.count > 0
    /\ driftFile = Absent
    /\ run.exit = 0

\* the step is a run of a gate whose baseline file exists and cannot be parsed
DriftRunOnUnparseable ==
    /\ driftFile = <<Unparseable>>
    /\ run'.args.gate = "drift"

RowCountRunOnUnparseable ==
    /\ rcFile = <<Unparseable>>
    /\ run'.args.gate = "row_count"

\* C20: a run of either gate, in check mode or in update mode, that finds a
\* baseline file it cannot parse ends with a non-zero exit code, gives no verdict
\* and does not save over the file.
C20_UnparseableBaselineAborts ==
    [][/\ DriftRunOnUnparseable
           => /\ run'.exit # 0
              /\ run'.outcome \in {"baseline unreadable", "collection not found"}
              /\ driftFile' = driftFile
       /\ RowCountRunOnUnparseable
           => /\ run'.exit # 0
              /\ run'.outcome = "baseline unreadable"
              /\ rcFile' = rcFile]_vars

\* an update run of the row-count gate has ended in JSONDecodeError and the
\* unparseable file is still in place
C20_Witness ==
    /\ run.args.gate = "row_count" /\ run.args.update_baseline
    /\ run.outcome = "baseline unreadable"
    /\ run.raised = "JSONDecodeError"
    /\ run.exit = 1
    /\ rcFile = <<Unparseable>>

-----------------------------------------------------------------------------
(* Properties of the stored snapshot list, checked under SpecRowCount *)

SnapshotsOf(file) == IF file = Absent THEN <<>> ELSE file[1].snapshots

\* the marts of the snapshots stamped by update run t, in stored order
MartsStampedBy(t) ==
    LET block == SelectSeq(SnapshotsOf(rcFile), LAMBDA s : s.timestamp = t)
    IN  [i \in 1..Len(block) |-> block[i].mart]

\* after k update runs the list is k blocks in run order, block t holding one
\* snapshot per mart the run t was configured with
OneBlockPerUpdateRun ==
    LET snaps == SnapshotsOf(rcFile)
    IN  /\ \A i \in 1..Len(snaps) : snaps[i].timestamp \in 0..(clock - 1)
        /\ \A i, j \in 1..Len(snaps) : i < j => snaps[i].timestamp <= snaps[j].timestamp
        /\ \A t \in 0..(clock - 1) : MartsStampedBy(t) \in MartLists

\* C21: an update run of the row-count gate appends one snapshot per configured
\* mart, in the order of --marts, to the end of the stored list and leaves the
\* snapshots stored before as they were and where they were; k update runs from
\* no file leave k blocks of snapshots, one per run, and nothing is pruned.
C21_AppendOnly ==
    [][(run'.args.gate = "row_count" /\ run'.outcome = "updated")
           => LET old == SnapshotsOf(rcFile)
                  new == SnapshotsOf(rcFile')
                  marts == run'.args.marts
              IN  /\ Len(new) = Len(old) + Len(marts)
                  /\ SubSeq(new, 1, Len(old)) = old
                  /\ \A i \in 1..Len(marts) :
                         /\ new[Len(old) + i].mart = marts[i]
                         /\ new[Len(old) + i].count = run'.current_counts[i].count
                  /\ OneBlockPerUpdateRun']_vars

\* the second update run: three snapshots from a run over two marts and a run
\* over one
C21_Witness ==
    /\ run.args.gate = "row_count" /\ run.outcome = "updated"
    /\ clock = 2
    /\ Len(SnapshotsOf(rcFile)) = 3

\* a run of the row-count gate that has queried the warehouse
RowCountCollected ==
    /\ run.args.gate = "row_count"
    /\ run.outcome \in {"checked", "updated", "baseline unreadable"}

\* C22: the collector returns one entry per configured mart, in the order of
\* --marts; a mart missing at the source counts 0 with a warning, every other
\* mart counts its rows, and the run goes on to detection or update.
C22_MissingMartCountsZero ==
    RowCountCollected =>
        /\ Len(run.current_counts) = Len(run.args.marts)
        /\ \A i \in 1..Len(run.args.marts) :
               /\ run.current_counts[i].mart = run.args.marts[i]
               /\ run.current_counts[i].warning <=> ~run.warehouse[i].found
               /\ run.current_counts[i].count =
                      IF run.warehouse[i].found THEN run.warehouse[i].rows ELSE 0
        /\ run.outcome \in {"checked", "updated"}
        /\ run.outcome = "checked" => Len(run.log) = Len(run.args.marts)

\* the first mart is missing, the second holds 2 rows and is still counted and
\* checked
C22_Witness ==
    /\ RowCountCollected /\ run.outcome = "checked"
    /\ Len(run.args.marts) = 2
    /\ ~run.warehouse[1].found
    /\ run.current_counts[1].count = 0
    /\ run.warehouse[2].found
    /\ run.current_counts[2].count = 2
    /\ Len(run.log) = 2

-----------------------------------------------------------------------------
(* Properties of error handling in detection, checked under SpecEdited *)

\* the marts that have a stored snapshot without "count"
MartsWithoutCount ==
    {rcFile[1].snapshots[k].mart :
        k \in {j \in 1..Len(rcFile[1].snapshots) :
                   "count" \notin DOMAIN rcFile[1].snapshots[j]}}

\* C23 (as claimed): when the evaluation of one mart raises an error, the run
\* still ends as a check with a verdict for every mart, the mart with the error
\* is reported as failing, and the exit code is the anomaly exit code 1.
C23_DetectionErrorBecomesVerdict ==
    (run.args.gate = "row_count" /\ ~run.args.update_baseline /\ MartsWithoutCount # {})
        => /\ run.outcome = "checked"
           /\ Len(run.log) = Len(run.args.marts)
           /\ MartsWithoutCount \subseteq FailedMarts
           /\ run.exit = 1

-----------------------------------------------------------------------------
(* Properties of the snapshot of the drift gate, checked under SpecDrift *)

FiveFields == {"count", "norm_mean", "norm_std", "norm_min", "norm_max"}

\* the snapshots in sight: the one the run computed and the one the file holds
SnapshotsInSight ==
    (IF DriftEvaluated THEN {run.current} ELSE {})
        \cup (IF driftFile # Absent THEN {driftFile[1]} ELSE {})

\* C24 (as claimed): every snapshot the collector produces and every baseline
\* update mode writes carries the five fields count, norm_mean, norm_std,
\* norm_min and norm_max.
C24_FiveFieldsAlways ==
    \A s \in SnapshotsInSight : DOMAIN s = FiveFields

\* C24 (amended): the snapshot of a non-empty collection, and the baseline
\* written from it, carries the five fields; the snapshot of an existing but
\* empty collection carries count = 0, norm_mean = 0.0 and norm_std = 0.0 only,
\* without norm_min and norm_max.
C24_SnapshotFields ==
    \A s \in SnapshotsInSight :
        IF s.count = 0
        THEN /\ DOMAIN s = {"count", "norm_mean", "norm_std"}
             /\ s.norm_mean = <<0, 1>>
             /\ s.norm_std = Zero
        ELSE DOMAIN s = FiveFields

\* update mode has written the snapshot of an empty collection as the baseline
C24_Witness ==
    /\ run.args.gate = "drift" /\ run.outcome = "updated"
    /\ run.current.count = 0
    /\ driftFile = Some(run.current)
    /\ "norm_min" \notin DOMAIN driftFile[1]

-----------------------------------------------------------------------------
(* Properties of overlapping runs, checked under SpecSide *)

\* a process that found the baseline file incomplete when it loaded it
TornRead(p) == procs[p].state = "done" /\ procs[p].raised = "JSONDecodeError"

\* C25: of two runs against the same baseline location, one saving and one
\* loading, the loading run never observes a partially written baseline; it
\* reads the complete old content or the complete new content.  (Every file the
\* runs start from is complete, so a load that fails to parse has seen a file
\* in the middle of a save.)
C25_NoTornRead == \A p \in Procs : ~TornRead(p)

\* how often the process has done the statement
Times(pr, phase) == Len(SelectSeq(pr.trace, LAMBDA e : e = phase))

\* position of the first occurrence of the statement in the trace, 0 for none
FirstAt(pr, phase) ==
    IF Times(pr, phase) = 0 THEN 0
    ELSE CHOOSE i \in 1..Len(pr.trace) :
             /\ pr.trace[i] = phase
             /\ \A j \in 1..(i - 1) : pr.trace[j] # phase

\* the process went through main() to a return statement
Returned(pr) == pr.state = "done" /\ pr.raised = ""

\* C26: in every run of either gate the metric collection comes first, before
\* the verdict is acted on (by a write or a report); the baseline file is read
\* at most once at any moment and exactly once in a run that returns; it is
\* written at most once and only after the read; and a run never both updates
\* and reports, a run that returns having done exactly one of the two.
C26_PhaseOrdering ==
    \A p \in Procs :
        LET pr == procs[p]
        IN  /\ pr.state # "idle" => pr.trace[1] = "collect" /\ Times(pr, "collect") = 1
            /\ Times(pr, "read") <= 1
            /\ Times(pr, "write") <= 1
            /\ Times(pr, "report") <= 1
            /\ Times(pr, "write") = 1
                   => Times(pr, "read") = 1 /\ FirstAt(pr, "read") < FirstAt(pr, "write")
            /\ Times(pr, "report") = 1
                   => Times(pr, "read") = 1 /\ FirstAt(pr, "read") < FirstAt(pr, "report")
            /\ Times(pr, "write") + Times(pr, "report") <= 1
            /\ Returned(pr)
                   => /\ Times(pr, "read") = 1
                      /\ Times(pr, "write") + Times(pr, "report") = 1
                      /\ (Times(pr, "write") = 1) = pr.update

\* both processes returned, one from an update run and one from a check run
C26_Witness ==
    /\ \A p \in Procs : Returned(procs[p])
    /\ \E p, q \in Procs :
        /\ procs[p].update /\ Times(procs[p], "write") = 1
        /\ ~procs[q].update /\ Times(procs[q], "report") = 1
        /\ procs[p].gate = procs[q].gate

\* both processes are update runs of the row-count gate that returned
BothUpdated ==
    \A p \in Procs :
        Returned(procs[p]) /\ procs[p].gate = "row_count" /\ procs[p].update

\* the snapshots the process appended are in the file
AppendedBy(p) ==
    /\ rcFile # Absent
    /\ rcFile[1] # Unparseable
    /\ \A i \in 1..Len(procs[p].current) :
           \E k \in 1..Len(rcFile[1].snapshots) :
               rcFile[1].snapshots[k] =
                   [timestamp |-> procs[p].stamp,
                    mart |-> procs[p].current[i].mart,
                    count |-> procs[p].current[i].count]

\* the snapshots the process loaded are in the file, at the front
KeepsLoadedBy(p) ==
    /\ rcFile # Absent
    /\ rcFile[1] # Unparseable
    /\ Len(rcFile[1].snapshots) >= Len(procs[p].baseline.snapshots)
    /\ SubSeq(rcFile[1].snapshots, 1, Len(procs[p].baseline.snapshots))
           = procs[p].baseline.snapshots

\* C29: when two update runs of the row-count gate overlap on one baseline file,
\* the file they leave holds the snapshots appended by both runs and all the
\* snapshots stored before.
C29_NoLostUpdate ==
    BothUpdated => \A p \in Procs : AppendedBy(p) /\ KeepsLoadedBy(p)

-----------------------------------------------------------------------------
(* Properties of the notifier, checked under SpecNotify *)

\* the notifier ran with a webhook and --failures-file
Notified(r) ==
    r.args.gate = "notify" /\ r.outcome # "skipped" /\ r.args.failures_file

\* C27: the file a gate writes as {"failures": [...]} is read back by
\* load_failures as the same strings in the same order, for every list of
\* failure strings: nothing is added, dropped or parsed again.
C27_HandOffRoundTrip ==
    [][(run.outcome = "checked" /\ Notified(run')) => run'.failures = run.failures]_vars

\* a report of MaxFailures strings with quotes, backslashes and line breaks in
\* them has been written by a gate and loaded by the notifier
C27_Witness ==
    /\ Notified(run)
    /\ failuresFile # Absent
    /\ failuresFile[1].kind = "json"
    /\ failuresFile[1].value.t = "object"
    /\ Len(run.failures) = MaxFailures
    /\ \A i \in 1..4 : run.failures[i] = Failure(i)

\* C28: for a loaded list of n failures the message holds the first
\* min(n, 15) of them as bullets in their order, followed by the bullet
\* "(+N more omitted)" with N = n - 15 when n > 15, and by nothing when n <= 15.
C28_Capping ==
    Notified(run) =>
        LET n == Len(run.failures)
            k == IF n < MaxLines THEN n ELSE MaxLines
            bullets == run.text.bullets
        IN  /\ Len(bullets) = k + (IF n > MaxLines THEN 1 ELSE 0)
            /\ SubSeq(bullets, 1, k) = SubSeq(run.failures, 1, k)
            /\ n > MaxLines
                   => bullets[k + 1]
                          = <<"(+">> \o decimal(n - MaxLines) \o <<" more omitted)">>
            /\ n <= MaxLines
                   => \A i \in 1..Len(bullets) : bullets[i] = <<>> \/ bullets[i][1] # "(+"

\* a list longer than the display limit was loaded and sent
C28_Witness ==
    /\ Notified(run)
    /\ run.outcome = "sent"
    /\ Len(run.failures) > MaxLines
    /\ Len(run.text.bullets) = MaxLines + 1

-----------------------------------------------------------------------------
(* The defaults of the row-count gate, checked under SpecHistory *)

\* C30: with the default window 7 and threshold 3.0, the check that follows an
\* update run on unchanged source data reports no anomaly for any mart, whatever
\* the stored history: the check ends with a verdict, no failure for a mart,
\* exit code 0, and no failure report.
C30_NoAnomalyAfterUpdate ==
    [][(/\ RowCountUpdateThenCheck
        /\ run'.warehouse = run.warehouse
        /\ run'.args.window_size = DefaultWindow
        /\ run'.args.threshold = DefaultZThreshold)
           => /\ run'.outcome = "checked"
              /\ ~run'.has_anomaly
              /\ run'.failures = <<>>
              /\ \A i \in 1..Len(run'.log) : run'.log[i].failure = <<>>
              /\ run'.exit = 0
              /\ failuresFile' = failuresFile]_vars

\* the check after an update evaluated a mart over a full window in which the
\* appended count is the only one of its value, and found no anomaly
C30_Witness ==
    /\ run.args.gate = "row_count" /\ run.outcome = "checked"
    /\ ~run.has_anomaly
    /\ StoredSnapshots = 2 * (MaxRuns + 1)
    /\ \E i \in 1..Len(run.log) :
        /\ run.log[i].evaluated
        /\ Len(run.log[i].used) = DefaultWindow
        /\ run.log[i].used[DefaultWindow].count = run.log[i].current
        /\ \A k \in 1..(DefaultWindow - 1) :
               run.log[i].used[k].count # run.log[i].current
        /\ run.log[i].zscore # Zero

=============================================================================
